---- MODULE Spec2Model ----
(***************************************************************************)
(* A model of the Briggs Empire generation core: the AIProviderManager of  *)
(* ai-providers.js (provider failover, quality and consistency gates, the  *)
(* rate-limit map and the chapter loop of generateBook), driven by the     *)
(* requests index.js sends to its single shared manager instance.          *)
(*                                                                         *)
(* Time is counted in units of 1000 ms: every duration of the source       *)
(* (1000, 2000, 10000 ms) is a whole number of units.  An adapter call may *)
(* complete in the unit it was issued in (a call shorter than one unit).   *)
(***************************************************************************)
EXTENDS Integers, Sequences, FiniteSets, TLC

\* ------------------------------------------------------------- bounds
\* The clock stops advancing at MaxTime.
MaxTime == 4
\* The clock of the behaviours that watch a failure cooldown run out.
MaxClock == 16
\* The longest chapter outline a book request carries.
MaxOutline == 3
\* The longest text, in pieces, that checkConsistency is called on directly.
MaxTokens == 2

\* ------------------------------------------------- program constants
\* ai-providers.js:253, 261 and 136, in units of 1000 ms.
SuccessCooldown == 2
FailureCooldown == 10
ChapterPause == 1
\* ai-book-generator.js:222, 229, in units of 1000 ms.
bgSuccessCooldown == 3
bgFailureCooldown == 15
\* ai-book-generator.js:70, the pause after a chapter, in units of 1000 ms.
bgChapterPause == 2
\* qualityThresholds (ai-providers.js:15-19); coherenceScore 0.7 in tenths.
minLength == 500
maxLength == 4000
coherenceScore == 7
\* maxRetries: the default of generateContent and the value generateBook passes.
DefaultMaxRetries == 2
BookMaxRetries == 3

Null == "null"

Providers == {"openai", "claude", "gemini"}
failoverChain == <<"openai", "claude", "gemini">>
defaultProvider == "openai"
\* A provider name taken from a request body need not be a configured one.
ProviderNames == Providers \cup {"bogus"}

\* The message of the error each adapter throws on a failed HTTP call, and of
\* the TypeError raised by this.providers[name].generate for an unknown name.
APIError == [openai |-> "OpenAI API error", claude |-> "Claude API error",
             gemini |-> "Gemini API error", bogus |-> "TypeError"]

\* The executions (HTTP requests) that may be in progress at once, and the
\* requests a behaviour holds: a request under observation and the one that
\* came before it or runs beside it.
Execs == {"r1", "r2"}
Requests == {"first", "second"}

\* --------------------------------------------------------------- texts
\* A text is kept by what the code reads of it: its length in characters
\* (only whether it is empty matters), content.split(' ').length, the signals
\* calculateCoherenceScore looks for, and its set of lower-cased words.
MkText(chars, wc, sentences, transitions, varied, structure, words) ==
  [chars |-> chars, wc |-> wc, sentences |-> sentences, transitions |-> transitions,
   varied |-> varied, structure |-> structure, words |-> words]

\* '' : ''.split(' ').length is 1.
EmptyText == MkText(0, 1, 0, FALSE, FALSE, FALSE, {})

Truthy(text) == text.chars > 0

\* A chapter-length text and a too-short text over the given vocabulary.
LongText(words) == MkText(3000, 600, 5, TRUE, TRUE, TRUE, words)
ShortText(words) == MkText(500, 100, 5, TRUE, TRUE, TRUE, words)

\* What an adapter may return for a prompt that embeds the context `prev`: a
\* chapter that stays within the context's vocabulary, one that is too short,
\* and one on another subject; without a context, a long and a short text.
Outputs(prev) ==
  IF Truthy(prev)
  THEN {LongText(prev.words), ShortText(prev.words), LongText({"drift"})}
  ELSE {LongText({"story"}), ShortText({"story"})}

Min(a, b) == IF a < b THEN a ELSE b
Max(a, b) == IF a > b THEN a ELSE b

\* calculateCoherenceScore, in tenths.
calculateCoherenceScore(content) ==
  IF content.sentences < 3 THEN 3
  ELSE (IF content.transitions THEN 4 ELSE 0) + (IF content.varied THEN 3 ELSE 0)
       + (IF content.structure THEN 3 ELSE 0)

\* A validator with the score threshold at 0.9.
validateQualityStrict(content) ==
  LET wordCount == content.wc
      score == Min(((wordCount * 500) \div minLength)
                   + ((maxLength * 300) \div Max(wordCount, maxLength))
                   + calculateCoherenceScore(content) * 20,
                   1000)
  IN  [passes |-> score >= 900 /\ wordCount >= minLength, score |-> score]

\* A validator that looks at the score only.
validateQualityScoreOnly(content) ==
  LET score == Min(((content.wc * 500) \div minLength)
                   + ((maxLength * 300) \div Max(content.wc, maxLength))
                   + calculateCoherenceScore(content) * 20,
                   1000)
  IN  [passes |-> score >= 600, score |-> score]

\* validateQuality; the score is in thousandths:
\*   (wc / minLength) * 0.5 + (maxLength / max(wc, maxLength)) * 0.3 + coherence * 0.2
validateQuality(content) ==
  LET wordCount == content.wc
      score == Min(((wordCount * 500) \div minLength)
                   + ((maxLength * 300) \div Max(wordCount, maxLength))
                   + calculateCoherenceScore(content) * 20,
                   1000)
  IN  [passes |-> score >= 600 /\ wordCount >= minLength, score |-> score]

\* String.prototype.toLowerCase on a word: the words written with capitals
\* that a text may hold, and their lower-case forms.
LowerCase == [Story |-> "story", STORY |-> "story", Drift |-> "drift"]
toLowerCase(w) == IF w \in DOMAIN LowerCase THEN LowerCase[w] ELSE w

\* new Set(content.toLowerCase().match(/\b\w+\b/g) || []); content.words is
\* the set of the words of the text as they are written.
WordSet(content) == {toLowerCase(w) : w \in content.words}

\* checkConsistency: the Jaccard similarity intersection.size / union.size, kept
\* as the fraction n / d.  d = 0 is the 0 / 0 of two word-free texts (NaN).
checkConsistency(newContent, previousContent) ==
  LET newWords == WordSet(newContent)
      prevWords == WordSet(previousContent)
  IN  [isNull |-> FALSE,
       n |-> Cardinality(newWords \cap prevWords),
       d |-> Cardinality(newWords \cup prevWords)]

NullScore == [isNull |-> TRUE, n |-> 0, d |-> 1]

\* consistencyScore < this.qualityThresholds.coherenceScore; every comparison
\* with NaN is false.
BelowCoherence(s) == s.d # 0 /\ 10 * s.n < coherenceScore * s.d

\* ----------------------------------------------------------- rate limits
NoEntry == [lastCall |-> -1, cooldown |-> 0]

\* A check that still holds the provider back when the cooldown has just
\* run out.
isRateLimitedInclusive(rl, t, provider) ==
  LET limit == rl[provider]
  IN  IF limit = NoEntry THEN FALSE ELSE t - limit.lastCall <= limit.cooldown

\* isRateLimited of both classes, on the map rl at clock reading t.
isRateLimitedIn(rl, t, provider) ==
  LET limit == rl[provider]
  IN  IF limit = NoEntry THEN FALSE ELSE t - limit.lastCall < limit.cooldown

\* A success record that is always written for the default provider.
updateRateLimitDefault(rl, t, provider) ==
  [rl EXCEPT ![defaultProvider] = [lastCall |-> t, cooldown |-> SuccessCooldown]]

updateRateLimitIn(rl, t, provider) ==
  [rl EXCEPT ![provider] = [lastCall |-> t, cooldown |-> SuccessCooldown]]

\* An error handler that backs off every provider.
handleProviderErrorEvery(rl, t, provider) ==
  [q \in DOMAIN rl |-> [lastCall |-> t, cooldown |-> FailureCooldown]]

\* An error handler that records the success cooldown.
handleProviderErrorShort(rl, t, provider) ==
  [rl EXCEPT ![provider] = [lastCall |-> t, cooldown |-> SuccessCooldown]]

handleProviderErrorIn(rl, t, provider) ==
  [rl EXCEPT ![provider] = [lastCall |-> t, cooldown |-> FailureCooldown]]

\* ------------------------------------------------------------ the state
VARIABLES
  now,         \* Date.now(), in units of 1000 ms
  rateLimits,  \* aiManager.rateLimits: provider name -> entry, or NoEntry
  pc,          \* where each execution is: "idle", "await" (an adapter call in
               \* flight) or "sleep" (the pause of generateBook)
  call,        \* each execution's current or last generateContent call
  book,        \* each execution's current or last generateBook call
  requests,    \* how many requests have been made so far
  bgRateLimits, \* the rateLimits map of a BookGenerator (ai-book-generator.js)
  bgCall,      \* its current or last generateChapter / generateSnippet call
  bgBook,      \* its current or last generateBook call
  probe,       \* the last direct call of validateQuality or checkConsistency:
               \* its arguments and what it returned
  res          \* for each execution started by a route of index.js: the route
               \* and the response sent so far

mgrVars == <<rateLimits, pc, call, book, res>>
bgVars == <<bgRateLimits, bgCall, bgBook>>
vars == <<now, rateLimits, pc, call, book, requests, bgRateLimits, bgCall, bgBook, probe,
          res>>

isRateLimited(provider) == isRateLimitedIn(rateLimits, now, provider)

\* ------------------------------------------------------ generateContent
\* A candidate order that keeps the preferred provider in the chain as well.
providersToTryUnfiltered(provider) == <<provider>> \o failoverChain

\* [provider, ...this.failoverChain.filter(p => p !== provider)]
providersToTry(provider) ==
  <<provider>> \o SelectSeq(failoverChain, LAMBDA p : p # provider)

NoResult == [content |-> EmptyText, provider |-> Null, qualityScore |-> 0,
             consistencyScore |-> NullScore]

NoOptions == [provider |-> defaultProvider, requireConsistency |-> TRUE,
              previousContent |-> EmptyText, maxRetries |-> DefaultMaxRetries]

\* The locals of a call, the trace of what happened to its candidates (a
\* history of the call: "skipped", "threw" or "returned" with the output),
\* and how it ended.
NoCall == [status |-> "none", opts |-> NoOptions, order |-> <<>>, idx |-> 1,
           attempts |-> 0, lastError |-> Null, trace |-> <<>>,
           result |-> NoResult, error |-> Null]

NewCall(opts) ==
  [NoCall EXCEPT !.status = "running", !.opts = opts,
                 !.order = providersToTry(opts.provider)]

Event(provider, ev, out) == [provider |-> provider, ev |-> ev, out |-> out]

\* `All AI providers failed. Last error: ${lastError?.message}`: the message
\* the terminal error carries.
AllFailedMessage(lastError) == IF lastError = Null THEN "undefined" ELSE lastError

\* A loop in which skipping a candidate restarts its cooldown.
RECURSIVE RunLoopRestart(_, _, _)
RunLoopRestart(c, rl, t) ==
  IF c.idx > Len(c.order)
  THEN [call |-> [c EXCEPT !.status = "thrown", !.error = AllFailedMessage(c.lastError)],
        rl |-> rl]
  ELSE LET providerName == c.order[c.idx]
       IN  IF isRateLimitedIn(rl, t, providerName)
           THEN RunLoopRestart([c EXCEPT !.idx = @ + 1,
                                         !.trace = Append(@, Event(providerName, "skipped",
                                                                   EmptyText))],
                               [rl EXCEPT ![providerName].lastCall = t], t)
           ELSE IF providerName \notin Providers
           THEN RunLoopRestart([c EXCEPT !.idx = @ + 1,
                                         !.lastError = APIError[providerName],
                                         !.trace = Append(@, Event(providerName, "threw",
                                                                   EmptyText))],
                               handleProviderErrorIn(rl, t, providerName), t)
           ELSE [call |-> c, rl |-> rl]

\* The for loop from candidate c.idx on, as far as it runs without waiting:
\* it skips the rate-limited candidates, fails at once on a name that is no
\* configured provider, and stops at the first adapter call it issues
\* (status "running": the call to c.order[c.idx] is in flight) or after the
\* last candidate (status "thrown").
RECURSIVE RunLoop(_, _, _)
RunLoop(c, rl, t) ==
  IF c.idx > Len(c.order)
  THEN [call |-> [c EXCEPT !.status = "thrown", !.error = AllFailedMessage(c.lastError)],
        rl |-> rl]
  ELSE LET providerName == c.order[c.idx]
       IN  IF isRateLimitedIn(rl, t, providerName)
           THEN RunLoop([c EXCEPT !.idx = @ + 1,
                                  !.trace = Append(@, Event(providerName, "skipped", EmptyText))],
                        rl, t)
           ELSE IF providerName \notin Providers
           THEN RunLoop([c EXCEPT !.idx = @ + 1,
                                  !.lastError = APIError[providerName],
                                  !.trace = Append(@, Event(providerName, "threw", EmptyText))],
                        handleProviderErrorIn(rl, t, providerName), t)
           ELSE [call |-> c, rl |-> rl]

\* A catch block that tries the provider that threw once more before it moves
\* on to the next candidate.
AfterThrowRetry(c, rl, t) ==
  LET providerName == c.order[c.idx]
      again == \A k \in 1..Len(c.trace) : c.trace[k].provider # providerName
  IN  RunLoop([c EXCEPT !.idx = IF again THEN @ ELSE @ + 1,
                        !.lastError = APIError[providerName],
                        !.trace = Append(@, Event(providerName, "threw", EmptyText))],
              IF again THEN rl ELSE handleProviderErrorIn(rl, t, providerName), t)

\* A catch block that lets the error end the call.
AfterThrowRethrow(c, rl, t) ==
  LET providerName == c.order[c.idx]
  IN  [call |-> [c EXCEPT !.status = "thrown",
                          !.error = APIError[providerName],
                          !.lastError = APIError[providerName],
                          !.trace = Append(@, Event(providerName, "threw", EmptyText))],
       rl |-> handleProviderErrorIn(rl, t, providerName)]

\* The catch block, after the adapter call in flight threw.
AfterThrow(c, rl, t) ==
  LET providerName == c.order[c.idx]
  IN  RunLoop([c EXCEPT !.idx = @ + 1,
                        !.lastError = APIError[providerName],
                        !.trace = Append(@, Event(providerName, "threw", EmptyText))],
              handleProviderErrorIn(rl, t, providerName), t)

\* Gates that let the loop go on while the counter has not passed the budget.
AfterReturnInclusive(c, rl, t, content) ==
  LET providerName == c.order[c.idx]
      o == c.opts
      traced == [c EXCEPT !.trace = Append(@, Event(providerName, "returned", content))]
      qualityCheck == validateQuality(content)
      a1 == IF qualityCheck.passes THEN c.attempts ELSE c.attempts + 1
      checked == o.requireConsistency /\ Truthy(o.previousContent)
      consistencyScore == checkConsistency(content, o.previousContent)
      a2 == IF checked /\ BelowCoherence(consistencyScore) THEN a1 + 1 ELSE a1
  IN  IF ~qualityCheck.passes /\ a1 <= o.maxRetries
      THEN RunLoop([traced EXCEPT !.attempts = a1, !.idx = @ + 1], rl, t)
      ELSE IF checked /\ BelowCoherence(consistencyScore) /\ a2 <= o.maxRetries
      THEN RunLoop([traced EXCEPT !.attempts = a2, !.idx = @ + 1], rl, t)
      ELSE [call |-> [traced EXCEPT
                        !.status = "returned",
                        !.attempts = a2,
                        !.result = [content |-> content,
                                    provider |-> providerName,
                                    qualityScore |-> qualityCheck.score,
                                    consistencyScore |->
                                      IF Truthy(o.previousContent)
                                      THEN checkConsistency(content, o.previousContent)
                                      ELSE NullScore]],
            rl |-> updateRateLimitIn(rl, t, providerName)]

\* A result that carries a consistency score only when the gate was applied.
AfterReturnGateScore(c, rl, t, content) ==
  LET providerName == c.order[c.idx]
      o == c.opts
      traced == [c EXCEPT !.trace = Append(@, Event(providerName, "returned", content))]
      qualityCheck == validateQuality(content)
      a1 == IF qualityCheck.passes THEN c.attempts ELSE c.attempts + 1
      checked == o.requireConsistency /\ Truthy(o.previousContent)
      consistencyScore == checkConsistency(content, o.previousContent)
      a2 == IF checked /\ BelowCoherence(consistencyScore) THEN a1 + 1 ELSE a1
  IN  IF ~qualityCheck.passes /\ a1 < o.maxRetries
      THEN RunLoop([traced EXCEPT !.attempts = a1, !.idx = @ + 1], rl, t)
      ELSE IF checked /\ BelowCoherence(consistencyScore) /\ a2 < o.maxRetries
      THEN RunLoop([traced EXCEPT !.attempts = a2, !.idx = @ + 1], rl, t)
      ELSE [call |-> [traced EXCEPT
                        !.status = "returned",
                        !.attempts = a2,
                        !.result = [content |-> content,
                                    provider |-> providerName,
                                    qualityScore |-> qualityCheck.score,
                                    consistencyScore |->
                                      IF checked
                                      THEN checkConsistency(content, o.previousContent)
                                      ELSE NullScore]],
            rl |-> updateRateLimitIn(rl, t, providerName)]

\* Lines 48-74, after the adapter call in flight returned `content`.
AfterReturn(c, rl, t, content) ==
  LET providerName == c.order[c.idx]
      o == c.opts
      traced == [c EXCEPT !.trace = Append(@, Event(providerName, "returned", content))]
      qualityCheck == validateQuality(content)
      a1 == IF qualityCheck.passes THEN c.attempts ELSE c.attempts + 1
      checked == o.requireConsistency /\ Truthy(o.previousContent)
      consistencyScore == checkConsistency(content, o.previousContent)
      a2 == IF checked /\ BelowCoherence(consistencyScore) THEN a1 + 1 ELSE a1
  IN  IF ~qualityCheck.passes /\ a1 < o.maxRetries
      THEN RunLoop([traced EXCEPT !.attempts = a1, !.idx = @ + 1], rl, t)
      ELSE IF checked /\ BelowCoherence(consistencyScore) /\ a2 < o.maxRetries
      THEN RunLoop([traced EXCEPT !.attempts = a2, !.idx = @ + 1], rl, t)
      ELSE [call |-> [traced EXCEPT
                        !.status = "returned",
                        !.attempts = a2,
                        !.result = [content |-> content,
                                    provider |-> providerName,
                                    qualityScore |-> qualityCheck.score,
                                    consistencyScore |->
                                      IF Truthy(o.previousContent)
                                      THEN checkConsistency(content, o.previousContent)
                                      ELSE NullScore]],
            rl |-> updateRateLimitIn(rl, t, providerName)]

\* ---------------------------------------------------------- generateBook
\* The titles of the outline entries a request may carry, in order, and the
\* decimal numerals of the chapter numbers.
TitleList == <<"intro", "body", "end", "epilogue", "appendix">>
Numeral == <<"1", "2", "3", "4", "5">>

\* bookPrompt.context as index.js builds it (never empty).
InitialContext == MkText(120, 20, 1, FALSE, FALSE, FALSE, {"book"})

\* The content of a placeholder chapter, `[GENERATION FAILED: ${error.message}]`.
PlaceholderText == MkText(60, 8, 2, FALSE, FALSE, FALSE, {"generation", "failed"})

Zero == [isNull |-> FALSE, n |-> 0, d |-> 1]

\* Whether a text passes both gates of a call with options o.
PassesGates(o, content) ==
  /\ validateQuality(content).passes
  /\ ~(/\ o.requireConsistency
       /\ Truthy(o.previousContent)
       /\ BelowCoherence(checkConsistency(content, o.previousContent)))

\* What is remembered of the generateContent call of an outline entry: how it
\* ended and what its adapter calls did ("threw", or returned a text "passing"
\* or "failing" the gates).
Summary(c) ==
  [status |-> c.status,
   events |-> {IF c.trace[k].ev = "threw" THEN "threw"
               ELSE IF PassesGates(c.opts, c.trace[k].out) THEN "passing"
               ELSE "failing" :
                 k \in {j \in 1..Len(c.trace) : c.trace[j].ev # "skipped"}}]

\* The locals and the result of a generateBook call; calls (the summary of the
\* generateContent call of each entry so far) and limitedAtStart (the providers
\* in cooldown when generateBook was called) are a history of it.
NoBook == [status |-> "none", outline |-> <<>>, i |-> 0, chapters |-> <<>>,
           previousContent |-> EmptyText, providers |-> <<>>, qualityScores |-> <<>>,
           wakeAt |-> 0, totalWords |-> 0, averageQuality |-> Zero,
           successfulChapters |-> 0, calls |-> <<>>, limitedAtStart |-> {}]

BookOptions(previousContent) ==
  [provider |-> defaultProvider, requireConsistency |-> TRUE,
   previousContent |-> previousContent, maxRetries |-> BookMaxRetries]

\* A context made of the last chapter only.
buildContextFromLast(chapters) ==
  LET ch == chapters[Len(chapters)]
  IN  MkText(1700, 300, 6, FALSE, TRUE, TRUE,
             {"chapter", Numeral[ch.number], ch.title} \cup ch.content.words)

\* chapters.slice(-2).map(ch => `Chapter ${ch.number}: ${ch.title}\n${ch.content.slice(-800)}`)
\* .join('\n\n'): the words of the two headers and of the two tails (a tail is
\* taken to use the vocabulary of its chapter).
buildContextFromChapters(chapters) ==
  LET n == Len(chapters)
      lastTwo == SubSeq(chapters, Max(1, n - 1), n)
      piece(ch) == {"chapter", Numeral[ch.number], ch.title} \cup ch.content.words
  IN  MkText(1700, 300, 6, FALSE, TRUE, TRUE,
             UNION {piece(lastTwo[k]) : k \in 1..Len(lastTwo)})

RECURSIVE SumSeq(_)
SumSeq(s) == IF s = <<>> THEN 0 ELSE Head(s) + SumSeq(Tail(s))

\* A chapter record that loses the provider of the result.
PushChapterNoProvider(b, c) ==
  LET result == c.result
      chapters == Append(b.chapters,
                         [number |-> b.i + 1, title |-> b.outline[b.i + 1],
                          content |-> result.content, provider |-> Null,
                          qualityScore |-> result.qualityScore,
                          consistencyScore |-> result.consistencyScore,
                          wordCount |-> result.content.wc, error |-> Null])
  IN  [b EXCEPT !.chapters = chapters,
                !.calls = Append(@, Summary(c)),
                !.providers = Append(@, result.provider),
                !.qualityScores = Append(@, result.qualityScore),
                !.previousContent = buildContextFromChapters(chapters)]

\* Lines 117-133: the chapter of a returned result.
PushChapter(b, c) ==
  LET result == c.result
      chapterData == [number |-> b.i + 1,
                      title |-> b.outline[b.i + 1],
                      content |-> result.content,
                      provider |-> result.provider,
                      qualityScore |-> result.qualityScore,
                      consistencyScore |-> result.consistencyScore,
                      wordCount |-> result.content.wc,
                      error |-> Null]
      chapters == Append(b.chapters, chapterData)
  IN  [b EXCEPT !.chapters = chapters,
                !.calls = Append(@, Summary(c)),
                !.providers = Append(@, result.provider),
                !.qualityScores = Append(@, result.qualityScore),
                !.previousContent = buildContextFromChapters(chapters)]

\* A catch block that appends nothing for the failed entry.
PushPlaceholderDropped(b, c) == b

\* Lines 138-153: the placeholder of a failed entry.
PushPlaceholder(b, c) ==
  [b EXCEPT !.calls = Append(@, Summary(c)),
            !.chapters = Append(@, [number |-> b.i + 1,
                                    title |-> b.outline[b.i + 1],
                                    content |-> PlaceholderText,
                                    provider |-> Null,
                                    qualityScore |-> 0,
                                    consistencyScore |-> Zero,
                                    wordCount |-> 0,
                                    error |-> c.error])]

\* Metadata that counts every chapter as successful.
FinalizeCountsAll(b) ==
  [b EXCEPT !.status = "done",
            !.totalWords = SumSeq([k \in 1..Len(b.chapters) |-> b.chapters[k].wordCount]),
            !.averageQuality = [isNull |-> FALSE, n |-> SumSeq(b.qualityScores),
                                d |-> Len(b.qualityScores)],
            !.successfulChapters = Len(b.chapters)]

\* Lines 156-161: the aggregate metadata; averageQuality is the fraction
\* n / d (0 / 0 when qualityScores is empty).
Finalize(b) ==
  [b EXCEPT !.status = "done",
            !.totalWords = SumSeq([k \in 1..Len(b.chapters) |-> b.chapters[k].wordCount]),
            !.averageQuality = [isNull |-> FALSE, n |-> SumSeq(b.qualityScores),
                                d |-> Len(b.qualityScores)],
            !.successfulChapters =
              Cardinality({k \in 1..Len(b.chapters) : b.chapters[k].error = Null})]

\* The for loop of generateBook from entry b.i on, as far as it runs without
\* waiting: an entry whose generateContent call throws before any adapter
\* call is issued gets its placeholder at once.  c is the last call made.
RECURSIVE RunBook(_, _, _, _)
RunBook(b, c, rl, t) ==
  IF b.i >= Len(b.outline)
  THEN [pc |-> "idle", book |-> Finalize(b), call |-> c, rl |-> rl]
  ELSE LET r == RunLoop(NewCall(BookOptions(b.previousContent)), rl, t)
       IN  IF r.call.status = "running"
           THEN [pc |-> "await", book |-> b, call |-> r.call, rl |-> r.rl]
           ELSE RunBook([PushPlaceholder(b, r.call) EXCEPT !.i = @ + 1],
                        r.call, r.rl, t)

\* What an execution does once its generateContent call has run as far as r:
\* wait for the next adapter call, or take the outcome: a request for content
\* is answered; generateBook appends the chapter and pauses, or appends the
\* placeholder and goes on to the next entry.
Continue(b, r, t) ==
  IF r.call.status = "running"
  THEN [pc |-> "await", book |-> b, call |-> r.call, rl |-> r.rl]
  ELSE IF b.status # "running"
  THEN [pc |-> "idle", book |-> b, call |-> r.call, rl |-> r.rl]
  ELSE IF r.call.status = "returned"
  THEN [pc |-> "sleep",
        book |-> [PushChapter(b, r.call) EXCEPT !.wakeAt = t + ChapterPause],
        call |-> r.call, rl |-> r.rl]
  ELSE RunBook([PushPlaceholder(b, r.call) EXCEPT !.i = @ + 1], r.call, r.rl, t)

\* ------------------------------------------------------ routes of index.js
\* Object.keys(this.providers): the keys in the order the constructor wrote
\* them.
providerKeys == <<"openai", "claude", "gemini">>

\* The entry of one provider in a snapshot; `lastCall || null`: Date.now() is
\* never 0, so lastUsed is null exactly when the map has no entry (the
\* lastCall of NoEntry, -1, stands for null).
ProviderStatus(name, available, limit) ==
  [name |-> name, available |-> available, lastUsed |-> limit.lastCall]

\* A snapshot that reports the rate-limited providers as the available ones.
getProviderStatusInverted(rl, t) ==
  [k \in 1..Len(providerKeys) |->
     ProviderStatus(providerKeys[k], isRateLimitedIn(rl, t, providerKeys[k]),
                    rl[providerKeys[k]])]

\* A snapshot that lists the providers by name.
getProviderStatusSorted(rl, t) ==
  LET sorted == <<"claude", "gemini", "openai">>
  IN  [k \in 1..Len(sorted) |->
         ProviderStatus(sorted[k], ~isRateLimitedIn(rl, t, sorted[k]), rl[sorted[k]])]

\* getProviderStatus: for each key, { name, available, lastUsed }.
getProviderStatus(rl, t) ==
  [k \in 1..Len(providerKeys) |->
     ProviderStatus(providerKeys[k], ~isRateLimitedIn(rl, t, providerKeys[k]),
                    rl[providerKeys[k]])]

\* A response without a providers field.
NoSnapshot == <<>>

\* No response yet; status 0 while the handler is still at work.
NoRequest == [prompt |-> FALSE, title |-> FALSE, chapters |-> FALSE]
NoResponse == [route |-> "none", req |-> NoRequest, status |-> 0, success |-> FALSE,
               error |-> Null, providers |-> NoSnapshot]

\* res.status(400).json({ error: ... }) of a request that fails validation.
BadRequest(route, req, error) ==
  [NoResponse EXCEPT !.route = route, !.req = req, !.status = 400, !.error = error]

\* A book handler that answers 500 when a chapter of the book failed.
AnswerFailsOnPlaceholder(route, req, s, t) ==
  IF route = "none" THEN NoResponse
  ELSE IF s.pc # "idle" THEN [NoResponse EXCEPT !.route = route, !.req = req]
  ELSE IF \/ route # "generate-book" /\ s.call.status = "thrown"
          \/ route = "generate-book" /\ s.book.status # "done"
          \/ route = "generate-book"
               /\ \E k \in 1..Len(s.book.chapters) : s.book.chapters[k].error # Null
  THEN [NoResponse EXCEPT !.route = route, !.req = req, !.status = 500,
                          !.error = s.call.error,
                          !.providers = getProviderStatus(s.rl, t)]
  ELSE [NoResponse EXCEPT !.route = route, !.req = req, !.status = 200, !.success = TRUE]

\* What the handler of `route` has sent once the execution has run as far as
\* s: nothing while it waits; after generateContent or generateBook returned,
\* res.json({ success: true, ... }); after generateContent threw, the catch
\* block's res.status(500).json({ success: false, error, providers }).
Answer(route, req, s, t) ==
  IF route = "none" THEN NoResponse
  ELSE IF s.pc # "idle" THEN [NoResponse EXCEPT !.route = route, !.req = req]
  ELSE IF \/ route # "generate-book" /\ s.call.status = "thrown"
          \/ route = "generate-book" /\ s.book.status # "done"
  THEN [NoResponse EXCEPT !.route = route, !.req = req, !.status = 500,
                          !.error = s.call.error,
                          !.providers = getProviderStatus(s.rl, t)]
  ELSE [NoResponse EXCEPT !.route = route, !.req = req, !.status = 200, !.success = TRUE]

\* The state after a step of execution e that serves `route` for request req.
ApplyFor(e, s, route, req) ==
  /\ pc' = [pc EXCEPT ![e] = s.pc]
  /\ call' = [call EXCEPT ![e] = s.call]
  /\ book' = [book EXCEPT ![e] = s.book]
  /\ rateLimits' = s.rl
  /\ res' = [res EXCEPT ![e] = Answer(route, req, s, now)]
  /\ UNCHANGED <<bgVars, probe>>

Apply(e, s) == ApplyFor(e, s, res[e].route, res[e].req)

\* ------------------------------------------------------- BookGenerator
bgProviders == <<"openai", "claude">>

bgUpdateRateLimit(rl, t, provider) ==
  [rl EXCEPT ![provider] = [lastCall |-> t, cooldown |-> bgSuccessCooldown]]

\* An error handler that records the cooldown of a success.
bgHandleProviderErrorAsSuccess(rl, t, provider) ==
  [rl EXCEPT ![provider] = [lastCall |-> t, cooldown |-> bgSuccessCooldown]]

bgHandleProviderError(rl, t, provider) ==
  [rl EXCEPT ![provider] = [lastCall |-> t, cooldown |-> bgFailureCooldown]]

bgIsRateLimited(provider) == isRateLimitedIn(bgRateLimits, now, provider)

\* A generateChapter or generateSnippet call: the position in this.providers,
\* the trace of its candidates, and how it ended.
bgNoCall == [status |-> "none", kind |-> "none", idx |-> 1, trace |-> <<>>,
             content |-> EmptyText, provider |-> Null, wordCount |-> 0,
             error |-> Null]

bgAllFailed == [chapter |-> "All AI providers failed for chapter generation",
                snippet |-> "All AI providers failed for snippet generation"]

\* The for loop of generateChapter / generateSnippet from candidate c.idx on,
\* as far as it runs without waiting.
RECURSIVE bgRunLoop(_, _, _)
bgRunLoop(c, rl, t) ==
  IF c.idx > Len(bgProviders)
  THEN [c EXCEPT !.status = "thrown", !.error = bgAllFailed[c.kind]]
  ELSE LET provider == bgProviders[c.idx]
       IN  IF isRateLimitedIn(rl, t, provider)
           THEN bgRunLoop([c EXCEPT !.idx = @ + 1,
                                    !.trace = Append(@, Event(provider, "skipped", EmptyText))],
                          rl, t)
           ELSE c

\* The locals and the result of BookGenerator.generateBook: status is
\* "running" while a generateChapter call is awaited, "sleep" during the pause
\* after a chapter and "done" once the book is returned; bookContext is kept
\* as the list of the pieces it was concatenated from.
bgDefaultOutline == <<"Introduction", "Main Content", "Conclusion">>

bgNoBook == [status |-> "none", outline |-> <<>>, i |-> 0, chapters |-> <<>>,
             providers |-> <<>>, totalWords |-> 0, bookContext |-> <<>>,
             wakeAt |-> 0, successfulChapters |-> 0]

\* content.substring(0, 500): the first 500 characters of a text, with the
\* share of its pieces and words that fits into them.
bgSubstring500(content) ==
  LET chars == Min(content.chars, 500)
  IN  IF content.chars = 0 THEN content
      ELSE MkText(chars, Max(1, (content.wc * chars) \div content.chars),
                  Max(1, (content.sentences * chars) \div content.chars),
                  content.transitions, content.varied, content.structure, content.words)

\* A piece of bookContext: the opening sentence (number 0), or
\* `\n\nChapter ${i + 1}: ${chapterTitle}\n${...substring(0, 500)}...`.
bgContextPiece(number, title, text) == [number |-> number, title |-> title, text |-> text]

\* Lines 49-67: the chapter of a generateChapter call that returned.
bgPushChapter(b, c) ==
  [b EXCEPT !.chapters = Append(@, [number |-> b.i + 1,
                                    title |-> b.outline[b.i + 1],
                                    content |-> c.content,
                                    provider |-> c.provider,
                                    wordCount |-> c.wordCount,
                                    error |-> Null]),
            !.providers = Append(@, c.provider),
            !.totalWords = @ + c.wordCount,
            !.bookContext = Append(@, bgContextPiece(b.i + 1, b.outline[b.i + 1],
                                                     bgSubstring500(c.content)))]

\* A catch block that also records the provider (null) of the placeholder.
bgPushPlaceholderCounted(b, c) ==
  [b EXCEPT !.chapters = Append(@, [number |-> b.i + 1,
                                    title |-> b.outline[b.i + 1],
                                    content |-> PlaceholderText,
                                    provider |-> Null,
                                    wordCount |-> 0,
                                    error |-> c.error]),
            !.providers = Append(@, Null)]

\* Lines 72-83: the placeholder of a generateChapter call that threw.
bgPushPlaceholder(b, c) ==
  [b EXCEPT !.chapters = Append(@, [number |-> b.i + 1,
                                    title |-> b.outline[b.i + 1],
                                    content |-> PlaceholderText,
                                    provider |-> Null,
                                    wordCount |-> 0,
                                    error |-> c.error])]

\* Lines 86-90: the metadata set after the loop.
bgFinalize(b) ==
  [b EXCEPT !.status = "done",
            !.successfulChapters =
              Cardinality({k \in 1..Len(b.chapters) : b.chapters[k].error = Null})]

\* The for loop of generateBook from entry b.i on, as far as it runs without
\* waiting: an entry whose generateChapter call throws before any callAI call
\* is issued gets its placeholder at once.  c is the last call made.
RECURSIVE bgRunBook(_, _, _, _)
bgRunBook(b, c, rl, t) ==
  IF b.i >= Len(b.outline)
  THEN [book |-> bgFinalize(b), call |-> c]
  ELSE LET r == bgRunLoop([bgNoCall EXCEPT !.status = "running", !.kind = "chapter"], rl, t)
       IN  IF r.status = "running"
           THEN [book |-> [b EXCEPT !.status = "running"], call |-> r]
           ELSE bgRunBook([bgPushPlaceholder(b, r) EXCEPT !.i = @ + 1], r, rl, t)

\* What the BookGenerator does once its call has run as far as c: a call made
\* for generateBook yields a chapter and the pause, or a placeholder and the
\* next entry.
bgContinue(b, c, rl, t) ==
  IF b.status # "running" \/ c.status = "running"
  THEN [book |-> b, call |-> c]
  ELSE IF c.status = "returned"
  THEN [book |-> [bgPushChapter(b, c) EXCEPT !.status = "sleep",
                                             !.wakeAt = t + bgChapterPause],
        call |-> c]
  ELSE bgRunBook([bgPushPlaceholder(b, c) EXCEPT !.i = @ + 1], c, rl, t)

\* ------------------------------------------- the validators called directly
\* The pieces a text is made of when split at its spaces: words in lower
\* case, with a capital and in capitals, and a piece without a word character.
Tokens == {"story", "Story", "STORY", "drift", "Drift", "--"}
IsWord(token) == token # "--"

\* The text whose pieces are `tokens`, joined by single spaces.
TextOf(tokens) ==
  MkText(IF tokens = <<>> THEN 0 ELSE 6 * Len(tokens) - 1,
         Max(1, Len(tokens)),
         IF tokens = <<>> THEN 0 ELSE 1,
         FALSE, FALSE, FALSE,
         {tokens[k] : k \in {j \in 1..Len(tokens) : IsWord(tokens[j])}})

TokenSeqs == UNION {[1..n -> Tokens] : n \in 0..MaxTokens}
ConsistencyInputs == {TextOf(tokens) : tokens \in TokenSeqs}

\* Texts of the word counts around the thresholds, with every combination of
\* the coherence signals.
WordCounts == {1, 100, 499, 500, 600, 4000, 8000}
QualityInputs ==
  {MkText(5 * wc, wc, sentences, transitions, varied, structure, {"story"}) :
     wc \in WordCounts, sentences \in {1, 3},
     transitions \in BOOLEAN, varied \in BOOLEAN, structure \in BOOLEAN}

NoQuality == [passes |-> FALSE, score |-> 0]
NoProbe == [fn |-> "none", newContent |-> EmptyText, previousContent |-> EmptyText,
            quality |-> NoQuality, consistency |-> NullScore]

\* ------------------------------------------------------------- actions
\* The options a caller of generateContent may pass.
ContentOptions ==
  {[provider |-> p, requireConsistency |-> rc, previousContent |-> prev, maxRetries |-> m] :
     p \in ProviderNames, rc \in BOOLEAN,
     prev \in {EmptyText, InitialContext}, m \in 1..BookMaxRetries} \
  {o \in [provider : ProviderNames, requireConsistency : {FALSE},
          previousContent : {EmptyText}, maxRetries : 1..BookMaxRetries] : TRUE}

\* The options of a POST /api/generate-content or GET /api/test-ai request:
\* { type, provider }, the provider taken from the request body.
RequestOptions == {[NoOptions EXCEPT !.provider = p] : p \in ProviderNames}

Init ==
  /\ now = 0
  /\ rateLimits = [p \in ProviderNames |-> NoEntry]
  /\ pc = [e \in Execs |-> "idle"]
  /\ call = [e \in Execs |-> NoCall]
  /\ book = [e \in Execs |-> NoBook]
  /\ requests = 0
  /\ bgRateLimits = [p \in {bgProviders[k] : k \in 1..Len(bgProviders)} |-> NoEntry]
  /\ bgCall = bgNoCall
  /\ bgBook = bgNoBook
  /\ probe = NoProbe
  /\ res = [e \in Execs |-> NoResponse]

\* Date.now() advances.  The clock is read for the first time by the first
\* request, and its reading then is taken as 0; once the last request has
\* been answered nothing reads it any more.
Tick ==
  /\ requests > 0
  /\ requests < Cardinality(Requests) \/ \E e \in Execs : pc[e] # "idle"
  /\ now < MaxTime
  /\ now' = now + 1
  /\ UNCHANGED <<mgrVars, bgVars, requests, probe>>

\* A call of generateContent that is not part of a book.
generateContent(e, opts) ==
  /\ pc[e] = "idle"
  /\ requests < Cardinality(Requests)
  /\ requests' = requests + 1
  /\ ApplyFor(e, Continue(NoBook, RunLoop(NewCall(opts), rateLimits, now), now),
              "none", NoRequest)
  /\ UNCHANGED now

\* A call of generateBook with an outline of n entries.
generateBook(e, n) ==
  /\ pc[e] = "idle"
  /\ requests < Cardinality(Requests)
  /\ requests' = requests + 1
  /\ ApplyFor(e, RunBook([NoBook EXCEPT !.status = "running",
                                        !.outline = SubSeq(TitleList, 1, n),
                                        !.previousContent = InitialContext,
                                        !.limitedAtStart =
                                          {p \in Providers : isRateLimited(p)}],
                         NoCall, rateLimits, now),
              "none", NoRequest)
  /\ UNCHANGED now

\* The adapter call in flight fails.
AdapterThrows(e) ==
  /\ pc[e] = "await"
  /\ Apply(e, Continue(book[e], AfterThrow(call[e], rateLimits, now), now))
  /\ UNCHANGED <<now, requests>>

\* The adapter call in flight returns generated text.
AdapterReturns(e) ==
  /\ pc[e] = "await"
  /\ \E content \in Outputs(call[e].opts.previousContent) :
       Apply(e, Continue(book[e], AfterReturn(call[e], rateLimits, now, content), now))
  /\ UNCHANGED <<now, requests>>

\* The pause after a successful chapter ends.
Wake(e) ==
  /\ pc[e] = "sleep"
  /\ now >= book[e].wakeAt
  /\ Apply(e, RunBook([book[e] EXCEPT !.i = @ + 1], call[e], rateLimits, now))
  /\ UNCHANGED <<now, requests>>

\* A call of generateChapter ("chapter") or generateSnippet ("snippet").  A
\* BookGenerator is a program of its own: index.js creates none, so a
\* behaviour is of the manager or of a BookGenerator.
bgGenerate(kind) ==
  /\ bgCall.status # "running"
  /\ bgBook.status \in {"none", "done"}
  /\ \A e \in Execs : call[e].status = "none" /\ book[e].status = "none"
  /\ requests < Cardinality(Requests)
  /\ requests' = requests + 1
  /\ bgCall' = bgRunLoop([bgNoCall EXCEPT !.status = "running", !.kind = kind],
                         bgRateLimits, now)
  /\ UNCHANGED <<now, mgrVars, bgRateLimits, bgBook, probe>>

\* The callAI call in flight fails: handleProviderError, then the next candidate.
bgAdapterThrows ==
  /\ bgCall.status = "running"
  /\ LET provider == bgProviders[bgCall.idx]
         rl == bgHandleProviderError(bgRateLimits, now, provider)
         s == bgContinue(bgBook,
                         bgRunLoop([bgCall EXCEPT
                                      !.idx = @ + 1,
                                      !.trace = Append(@, Event(provider, "threw",
                                                                EmptyText))],
                                   rl, now),
                         rl, now)
     IN  /\ bgRateLimits' = rl
         /\ bgCall' = s.call
         /\ bgBook' = s.book
  /\ UNCHANGED <<now, mgrVars, requests, probe>>

\* The callAI call in flight returns: updateRateLimit and the result.
bgAdapterReturns ==
  /\ bgCall.status = "running"
  /\ \E content \in Outputs(EmptyText) :
       LET provider == bgProviders[bgCall.idx]
           rl == bgUpdateRateLimit(bgRateLimits, now, provider)
           s == bgContinue(bgBook,
                           [bgCall EXCEPT
                              !.status = "returned",
                              !.trace = Append(@, Event(provider, "returned", content)),
                              !.content = content,
                              !.provider = provider,
                              !.wordCount = content.wc],
                           rl, now)
       IN  /\ bgRateLimits' = rl
           /\ bgCall' = s.call
           /\ bgBook' = s.book
  /\ UNCHANGED <<now, mgrVars, requests, probe>>

\* The bookConfig of a BookGenerator.generateBook call: without chapters, or
\* with a list of n chapter titles.
bgBookConfigs ==
  {[hasChapters |-> FALSE, n |-> 0]} \cup {[hasChapters |-> TRUE, n |-> n] : n \in 0..MaxOutline}

\* A call of BookGenerator.generateBook.
bgGenerateBook(bookConfig) ==
  /\ bgCall.status # "running"
  /\ bgBook.status \in {"none", "done"}
  /\ \A e \in Execs : call[e].status = "none" /\ book[e].status = "none"
  /\ requests < Cardinality(Requests)
  /\ requests' = requests + 1
  /\ LET chapterOutline == IF bookConfig.hasChapters
                           THEN SubSeq(TitleList, 1, bookConfig.n)
                           ELSE bgDefaultOutline
         s == bgRunBook([bgNoBook EXCEPT
                           !.status = "running",
                           !.outline = chapterOutline,
                           !.bookContext = <<bgContextPiece(0, "", InitialContext)>>],
                        bgCall, bgRateLimits, now)
     IN  /\ bgCall' = s.call
         /\ bgBook' = s.book
  /\ UNCHANGED <<now, mgrVars, bgRateLimits, probe>>

\* The pause after a chapter of the BookGenerator's book ends.
bgWake ==
  /\ bgBook.status = "sleep"
  /\ now >= bgBook.wakeAt
  /\ LET s == bgRunBook([bgBook EXCEPT !.i = @ + 1], bgCall, bgRateLimits, now)
     IN  /\ bgCall' = s.call
         /\ bgBook' = s.book
  /\ UNCHANGED <<now, mgrVars, bgRateLimits, requests, probe>>

\* Requests served one after the other: content requests, then a book request.
Next ==
  \/ Tick
  \/ book["r1"].status = "none" /\ \E opts \in RequestOptions : generateContent("r1", opts)
  \/ book["r1"].status = "none" /\ \E n \in 0..MaxOutline : generateBook("r1", n)
  \/ AdapterThrows("r1")
  \/ AdapterReturns("r1")
  \/ Wake("r1")

Spec == Init /\ [][Next]_vars

\* generateContent called with any options, one call after the other.
NextAPI ==
  \/ Tick
  \/ \E opts \in ContentOptions : generateContent("r1", opts)
  \/ AdapterThrows("r1")
  \/ AdapterReturns("r1")

SpecAPI == Init /\ [][NextAPI]_vars

\* Two GET /api/test-ai requests in progress at once on the shared manager.
NextConc ==
  \/ Tick
  \/ \E e \in Execs :
       \/ generateContent(e, NoOptions)
       \/ AdapterThrows(e)
       \/ AdapterReturns(e)

SpecConc == Init /\ [][NextConc]_vars

\* The rate limiters of both classes over a clock long enough for a failure
\* cooldown to run out: test requests on the manager, chapter and snippet
\* calls on a BookGenerator.
Clock ==
  /\ requests > 0
  /\ now < MaxClock
  /\ now' = now + 1
  /\ UNCHANGED <<mgrVars, bgVars, requests, probe>>

NextLimiter ==
  \/ Clock
  \/ bgCall.status = "none" /\ generateContent("r1", NoOptions)
  \/ AdapterThrows("r1")
  \/ AdapterReturns("r1")
  \/ \E kind \in {"chapter", "snippet"} : bgGenerate(kind)
  \/ bgAdapterThrows
  \/ bgAdapterReturns

SpecLimiter == Init /\ [][NextLimiter]_vars

\* A BookGenerator that generates a snippet and then a book, or a book, over
\* the same clock.
NextBookGenerator ==
  \/ Clock
  \/ requests = 0 /\ bgGenerate("snippet")
  \/ bgBook.status = "none" /\ \E bookConfig \in bgBookConfigs : bgGenerateBook(bookConfig)
  \/ bgAdapterThrows
  \/ bgAdapterReturns
  \/ bgWake

SpecBookGenerator == Init /\ [][NextBookGenerator]_vars

\* The bodies of POST /api/generate-content requests: prompt ('' when it is
\* missing) and provider.
ContentBodies == [prompt : {"", "Write a paragraph."}, provider : ProviderNames]

\* The bodies of POST /api/generate-book requests: title ('' when missing) and
\* chapters (missing, or a list of n titles).
BookBodies ==
  {[title |-> t, hasChapters |-> h, n |-> n] :
     t \in {"", "The AI Revolution"}, h \in BOOLEAN, n \in 0..MaxOutline} \
  {b \in [title : {"", "The AI Revolution"}, hasChapters : {FALSE}, n : 1..MaxOutline] : TRUE}

\* A request answered 400: nothing but the response changes.
Reject(e, response) ==
  /\ res' = [res EXCEPT ![e] = response]
  /\ UNCHANGED <<rateLimits, pc, call, book, bgVars, probe>>

\* GET /api/test-ai.
getTestAI(e) ==
  /\ pc[e] = "idle"
  /\ requests < Cardinality(Requests)
  /\ requests' = requests + 1
  /\ ApplyFor(e, Continue(NoBook, RunLoop(NewCall(NoOptions), rateLimits, now), now),
              "test-ai", NoRequest)
  /\ UNCHANGED now

\* GET /api/ai-status: the snapshot of getProviderStatus.
getAIStatus(e) ==
  /\ pc[e] = "idle"
  /\ requests < Cardinality(Requests)
  /\ requests' = requests + 1
  /\ res' = [res EXCEPT ![e] = [NoResponse EXCEPT
                                  !.route = "ai-status",
                                  !.status = 200,
                                  !.providers = getProviderStatus(rateLimits, now)]]
  /\ UNCHANGED <<now, rateLimits, pc, call, book, bgVars, probe>>

\* A handler that calls generateContent whatever the body holds.
postGenerateContentUnchecked(e, body) ==
  /\ pc[e] = "idle"
  /\ requests < Cardinality(Requests)
  /\ requests' = requests + 1
  /\ ApplyFor(e, Continue(NoBook,
                          RunLoop(NewCall([NoOptions EXCEPT !.provider = body.provider]),
                                  rateLimits, now), now),
              "generate-content", [NoRequest EXCEPT !.prompt = body.prompt # ""])
  /\ UNCHANGED now

\* POST /api/generate-content.
postGenerateContent(e, body) ==
  /\ pc[e] = "idle"
  /\ requests < Cardinality(Requests)
  /\ requests' = requests + 1
  /\ LET req == [NoRequest EXCEPT !.prompt = body.prompt # ""]
     IN  IF body.prompt = ""
         THEN Reject(e, BadRequest("generate-content", req, "Prompt is required"))
         ELSE ApplyFor(e, Continue(NoBook,
                                   RunLoop(NewCall([NoOptions EXCEPT !.provider = body.provider]),
                                           rateLimits, now), now),
                       "generate-content", req)
  /\ UNCHANGED now

\* POST /api/generate-book.
postGenerateBook(e, body) ==
  /\ pc[e] = "idle"
  /\ requests < Cardinality(Requests)
  /\ requests' = requests + 1
  /\ LET req == [NoRequest EXCEPT !.title = body.title # "", !.chapters = body.hasChapters]
     IN  IF body.title = "" \/ ~body.hasChapters
         THEN Reject(e, BadRequest("generate-book", req, "Title and chapters are required"))
         ELSE ApplyFor(e, RunBook([NoBook EXCEPT !.status = "running",
                                                 !.outline = SubSeq(TitleList, 1, body.n),
                                                 !.previousContent = InitialContext,
                                                 !.limitedAtStart =
                                                   {p \in Providers : isRateLimited(p)}],
                                  NoCall, rateLimits, now),
                       "generate-book", req)
  /\ UNCHANGED now

\* The routes of index.js served one request after the other, a book request
\* last.
NextRoutes ==
  \/ Tick
  \/ book["r1"].status = "none" /\ getAIStatus("r1")
  \/ book["r1"].status = "none" /\ getTestAI("r1")
  \/ book["r1"].status = "none" /\ \E body \in ContentBodies : postGenerateContent("r1", body)
  \/ book["r1"].status = "none" /\ \E body \in BookBodies : postGenerateBook("r1", body)
  \/ AdapterThrows("r1")
  \/ AdapterReturns("r1")
  \/ Wake("r1")

SpecRoutes == Init /\ [][NextRoutes]_vars

\* POST /api/generate-content over a clock long enough for an adapter call to
\* outlast a failure cooldown.  The clock stops with the last answer, as in
\* Tick.
Elapse ==
  /\ requests > 0
  /\ requests < Cardinality(Requests) \/ \E e \in Execs : pc[e] # "idle"
  /\ now < MaxClock
  /\ now' = now + 1
  /\ UNCHANGED <<mgrVars, bgVars, requests, probe>>

NextContentRoutes ==
  \/ Elapse
  \/ \E body \in ContentBodies : postGenerateContent("r1", body)
  \/ AdapterThrows("r1")
  \/ AdapterReturns("r1")

SpecContentRoutes == Init /\ [][NextContentRoutes]_vars

\* One request, for a test or for a book, under the assumptions of
\* termination: an adapter call in flight eventually completes (returns or
\* throws), time passes while generateBook sleeps, and the timer of the pause
\* fires.
AdapterCompletes(e) == AdapterThrows(e) \/ AdapterReturns(e)

TimePasses(e) == pc[e] = "sleep" /\ Tick

NextFair ==
  \/ Tick
  \/ requests = 0 /\ getTestAI("r1")
  \/ requests = 0 /\ \E n \in 0..MaxOutline : generateBook("r1", n)
  \/ AdapterThrows("r1")
  \/ AdapterReturns("r1")
  \/ Wake("r1")

\* Weak fairness of AdapterCompletes and of Wake, written out: a step of
\* either changes the trace or the entry counter, so ENABLED <<A>>_vars is the
\* guard of A.
AdapterFair(e) == <>[](pc[e] = "await") => []<><<AdapterCompletes(e)>>_vars

WakeFair(e) ==
  <>[](pc[e] = "sleep" /\ now >= book[e].wakeAt) => []<><<Wake(e)>>_vars

SpecFair ==
  /\ Init /\ [][NextFair]_vars
  /\ WF_vars(TimePasses("r1"))
  /\ AdapterFair("r1")
  /\ WakeFair("r1")

\* validateQuality and checkConsistency called on texts of every shape.
callValidateQuality ==
  /\ \E content \in QualityInputs :
       probe' = [NoProbe EXCEPT !.fn = "validateQuality",
                                !.newContent = content,
                                !.quality = validateQuality(content)]
  /\ UNCHANGED <<now, mgrVars, bgVars, requests>>

callCheckConsistency ==
  /\ \E newContent, previousContent \in ConsistencyInputs :
       probe' = [NoProbe EXCEPT !.fn = "checkConsistency",
                                !.newContent = newContent,
                                !.previousContent = previousContent,
                                !.consistency = checkConsistency(newContent, previousContent)]
  /\ UNCHANGED <<now, mgrVars, bgVars, requests>>

NextValidators ==
  \/ callValidateQuality
  \/ callCheckConsistency

SpecValidators == Init /\ [][NextValidators]_vars

\* ---------------------------------------------------------------------
\* Claims.  What happened to the candidates of a call is read off its trace.
EventsOf(c, provider) ==
  {k \in 1..Len(c.trace) : c.trace[k].provider = provider}

Ended(c) == c.status \in {"returned", "thrown"}

\* C1: failover order.  For the candidate order A, B, C, ...: when A was
\* rate-limited at the call (skipped first), every adapter call to B threw and
\* every adapter call to C returned a text passing the gates, the call has
\* returned C's output with provider C, B's adapter was invoked exactly once
\* and A's adapter never.
C1_Case(c) ==
  /\ Ended(c)
  /\ Len(c.order) >= 3
  /\ c.trace # <<>>
  /\ c.trace[1] = Event(c.order[1], "skipped", EmptyText)
  /\ EventsOf(c, c.order[2]) # {}
  /\ \A k \in EventsOf(c, c.order[2]) : c.trace[k].ev = "threw"
  /\ \A k \in EventsOf(c, c.order[3]) :
       c.trace[k].ev = "returned" /\ PassesGates(c.opts, c.trace[k].out)

C1_FailoverOrder ==
  \A e \in Execs :
    LET c == call[e]
    IN  C1_Case(c) =>
          /\ c.status = "returned"
          /\ c.result.provider = c.order[3]
          /\ \E k \in EventsOf(c, c.order[3]) : c.result.content = c.trace[k].out
          /\ Cardinality(EventsOf(c, c.order[2])) = 1
          /\ EventsOf(c, c.order[1]) = {1}
          /\ Len(c.trace) = 3

C1_Witness ==
  \E e \in Execs :
    /\ C1_Case(call[e])
    /\ call[e].status = "returned"
    /\ call[e].order = <<"claude", "openai", "gemini">>

\* consistencyScore >= 0.7
AtLeastCoherence(s) == s.d # 0 /\ 10 * s.n >= coherenceScore * s.d

\* C2: a call returns only content that passed every gate: the returned
\* content passes validateQuality and, when requireConsistency is set and
\* previousContent was supplied, its consistency score is at least 0.7.
C2_ReturnsOnlyGatePassing ==
  \A e \in Execs :
    LET c == call[e]
    IN  c.status = "returned" =>
          /\ validateQuality(c.result.content).passes
          /\ (c.opts.requireConsistency /\ Truthy(c.opts.previousContent)
                => AtLeastCoherence(c.result.consistencyScore))

\* C3: the all-providers-failed error carries the message of the last
\* provider error of the call, however the candidates were exhausted.
C3_ErrorCarriesLastProviderError ==
  \A e \in Execs :
    LET c == call[e]
        threw == {k \in 1..Len(c.trace) : c.trace[k].ev = "threw"}
    IN  c.status = "thrown" =>
          \E k \in threw :
            /\ \A j \in threw : j <= k
            /\ c.error = APIError[c.trace[k].provider]

\* C9: every adapter call updates the rate-limit entry of its provider: in the
\* step in which the adapter call in flight ends (it throws, or returns a text
\* that fails a gate or is accepted), the entry of that provider gets
\* lastCall = now.
C9_EntryUpdatedOnEveryAttempt ==
  [][\A e \in Execs :
       pc[e] = "await" /\ call'[e] # call[e] =>
         LET providerName == call[e].order[call[e].idx]
         IN  /\ rateLimits'[providerName] # NoEntry
             /\ rateLimits'[providerName].lastCall = now]_vars

\* C10: the accesses of two executions to the rate-limit map do not
\* interleave: no adapter call is in flight to a provider in cooldown, and no
\* two executions have a call in flight to the same provider.
InFlight(e) == IF pc[e] = "await" THEN {call[e].order[call[e].idx]} ELSE {}

C10_SequentialAccess ==
  /\ \A e \in Execs : \A p \in InFlight(e) : ~isRateLimited(p)
  /\ \A e1, e2 \in Execs : e1 # e2 => InFlight(e1) \cap InFlight(e2) = {}

\* The chapters of a book without an error, and its placeholders.
Successful(b) == {k \in 1..Len(b.chapters) : b.chapters[k].error = Null}
Placeholders(b) == {k \in 1..Len(b.chapters) : b.chapters[k].error # Null}

\* Entry k was forced to fail: adapter calls were issued for it and each threw.
ForcedFailure(b, k) == b.calls[k].events = {"threw"}
\* The providers did what they were asked for entry k: every adapter call
\* issued for it returned a text passing the gates.
AllSucceeded(b, k) == b.calls[k].events \subseteq {"passing"}

\* C4: a book with exactly one forced chapter failure (every adapter call of
\* one entry throws, the adapter calls of every other entry succeed) has
\* successfulChapters = outline length - 1, and the failed chapter has an
\* error and wordCount 0, wherever the failing entry stands.
C4_OneForcedFailure ==
  \A e \in Execs :
    LET b == book[e]
        n == Len(b.outline)
    IN  \A k \in 1..n :
          (/\ b.status = "done"
           /\ ForcedFailure(b, k)
           /\ \A j \in (1..n) \ {k} : AllSucceeded(b, j))
          => /\ b.successfulChapters = n - 1
             /\ b.chapters[k].error # Null
             /\ b.chapters[k].wordCount = 0

\* C5: partial failure never aborts a book.  While generateBook runs, the
\* chapters appended so far are those of the outline entries so far, in order
\* (chapter i has number i and the title of entry i); an entry whose
\* generateContent call threw has a placeholder (error set, provider null,
\* wordCount 0) and every other entry a chapter without error; the book
\* returned has one chapter per outline entry.
C5_PartialFailureNeverAborts ==
  \A e \in Execs :
    LET b == book[e]
        n == Len(b.outline)
    IN  b.status # "none" =>
          /\ Len(b.chapters) <= n
          /\ Len(b.calls) = Len(b.chapters)
          /\ b.status = "done" => Len(b.chapters) = n
          /\ b.status = "running" =>
               Len(b.chapters) = (IF pc[e] = "sleep" THEN b.i + 1 ELSE b.i)
          /\ \A k \in 1..Len(b.chapters) :
               LET ch == b.chapters[k]
               IN  /\ ch.number = k
                   /\ ch.title = b.outline[k]
                   /\ b.calls[k].status = "thrown" =>
                        ch.error # Null /\ ch.provider = Null /\ ch.wordCount = 0
                   /\ b.calls[k].status = "returned" =>
                        ch.error = Null /\ ch.provider \in Providers

C5_Witness ==
  \E e \in Execs :
    /\ book[e].status = "done"
    /\ Len(book[e].outline) = 3
    /\ Placeholders(book[e]) = {2}

\* C6 as claimed: when every adapter call issued for a book succeeds with a
\* text passing the gates, the book has one chapter per entry, each with a
\* provider and no error, and successfulChapters = outline length.
C6_AllSuccess_Original ==
  \A e \in Execs :
    LET b == book[e]
        n == Len(b.outline)
    IN  (b.status = "done" /\ \A k \in 1..n : AllSucceeded(b, k)) =>
          /\ Len(b.chapters) = n
          /\ \A k \in 1..n : b.chapters[k].provider # Null /\ b.chapters[k].error = Null
          /\ b.successfulChapters = n

\* C6 as amended: the same, for a book requested while no provider is in
\* cooldown and served with no other request in progress.
C6_AllSuccess ==
  \A e \in Execs :
    LET b == book[e]
        n == Len(b.outline)
    IN  (/\ b.status = "done"
         /\ b.limitedAtStart = {}
         /\ \A k \in 1..n : AllSucceeded(b, k)) =>
          /\ Len(b.chapters) = n
          /\ \A k \in 1..n : b.chapters[k].provider # Null /\ b.chapters[k].error = Null
          /\ b.successfulChapters = n

\* A book of three chapters, the second generated while openai was still in
\* cooldown, the third by openai again.
C6_Witness ==
  \E e \in Execs :
    LET b == book[e]
    IN  /\ b.status = "done"
        /\ b.limitedAtStart = {}
        /\ Len(b.outline) = 3
        /\ \A k \in 1..3 : AllSucceeded(b, k)
        /\ b.providers = <<"openai", "claude", "openai">>

\* C7: isRateLimited(provider) is true exactly when the map holds an entry for
\* the provider and now - lastCall < cooldown, in the manager and in the
\* BookGenerator: as the value of the method in every state (false for every
\* provider while the map is empty), and as the decision taken for each
\* candidate (a candidate is skipped exactly when that condition holds; at
\* elapsed = cooldown it is called).
LimitedBy(entry, t) == entry # NoEntry /\ t - entry.lastCall < entry.cooldown

\* The positions of the trace of call d that the step from call c added.
NewEvents(c, d) ==
  IF c.status = "running" THEN (Len(c.trace) + 1)..Len(d.trace) ELSE 1..Len(d.trace)

C7_Value ==
  /\ \A p \in ProviderNames : isRateLimited(p) <=> LimitedBy(rateLimits[p], now)
  /\ \A p \in DOMAIN bgRateLimits : bgIsRateLimited(p) <=> LimitedBy(bgRateLimits[p], now)
  /\ (\A p \in ProviderNames : rateLimits[p] = NoEntry)
       => \A p \in ProviderNames : ~isRateLimited(p)

C7_Decision ==
  /\ \A e \in Execs :
       call'[e] # call[e] =>
         /\ \A k \in NewEvents(call[e], call'[e]) :
              call'[e].trace[k].ev = "skipped" =>
                LimitedBy(rateLimits'[call'[e].trace[k].provider], now)
         /\ call'[e].status = "running" =>
              ~LimitedBy(rateLimits'[call'[e].order[call'[e].idx]], now)
  /\ bgCall' # bgCall =>
       /\ \A k \in NewEvents(bgCall, bgCall') :
            bgCall'.trace[k].ev = "skipped" =>
              LimitedBy(bgRateLimits'[bgCall'.trace[k].provider], now)
       /\ bgCall'.status = "running" =>
            ~LimitedBy(bgRateLimits'[bgProviders[bgCall'.idx]], now)

C7_IsRateLimited == []C7_Value /\ [][C7_Decision]_vars

\* A call in flight to a provider whose cooldown had just run out.
C7_Witness ==
  /\ pc["r1"] = "await"
  /\ LET limit == rateLimits[call["r1"].order[call["r1"].idx]]
     IN  limit # NoEntry /\ now - limit.lastCall = limit.cooldown

\* C8: after a failure is recorded for a provider, isRateLimited(provider) is
\* true at once and for as long as less than the failure cooldown has elapsed,
\* and false once it has elapsed with no further call to the provider; the
\* failure cooldown is longer than the success cooldown.  In both classes.
Threw(c) == {c.trace[k].provider : k \in {j \in 1..Len(c.trace) : c.trace[j].ev = "threw"}}

C8_WhileCooling ==
  /\ \A p \in Threw(call["r1"]) :
       /\ rateLimits[p] # NoEntry
       /\ isRateLimited(p) <=> now - rateLimits[p].lastCall < FailureCooldown
  /\ \A p \in Threw(bgCall) :
       /\ bgRateLimits[p] # NoEntry
       /\ bgIsRateLimited(p) <=> now - bgRateLimits[p].lastCall < bgFailureCooldown
  /\ FailureCooldown > SuccessCooldown
  /\ bgFailureCooldown > bgSuccessCooldown

C8_AtOnce ==
  /\ call'["r1"] # call["r1"] =>
       \A k \in NewEvents(call["r1"], call'["r1"]) :
         call'["r1"].trace[k].ev = "threw" =>
           LET p == call'["r1"].trace[k].provider
           IN  rateLimits'[p].lastCall = now' /\ isRateLimitedIn(rateLimits', now', p)
  /\ bgCall' # bgCall =>
       \A k \in NewEvents(bgCall, bgCall') :
         bgCall'.trace[k].ev = "threw" =>
           LET p == bgCall'.trace[k].provider
           IN  bgRateLimits'[p].lastCall = now' /\ isRateLimitedIn(bgRateLimits', now', p)

C8_FailureCooldown == []C8_WhileCooling /\ [][C8_AtOnce]_vars

\* A provider that failed is available again: its failure cooldown has run out.
C8_Witness ==
  /\ "openai" \in Threw(call["r1"])
  /\ now - rateLimits["openai"].lastCall >= FailureCooldown
  /\ ~isRateLimited("openai")

\* C11: the candidates of a generateContent call are the preferred provider
\* followed by the other providers in the order openai, claude, gemini, none
\* twice; what happened to the candidates so far follows that order, one
\* adapter call is in flight at a time (the next candidate, after all earlier
\* ones were dealt with), and no provider's adapter is invoked twice in a call.
Rank == [openai |-> 1, claude |-> 2, gemini |-> 3]

Invocations(c, provider) ==
  Cardinality({k \in EventsOf(c, provider) : c.trace[k].ev # "skipped"})
  + (IF c.status = "running" /\ c.order[c.idx] = provider THEN 1 ELSE 0)

C11_CandidateOrder ==
  \A e \in Execs :
    LET c == call[e]
        n == Len(c.order)
    IN  c.status # "none" =>
          /\ c.order[1] = c.opts.provider
          /\ {c.order[k] : k \in 2..n} = Providers \ {c.opts.provider}
          /\ \A i, j \in 2..n : i < j => Rank[c.order[i]] < Rank[c.order[j]]
          /\ \A i, j \in 1..n : i # j => c.order[i] # c.order[j]
          /\ Len(c.trace) <= n
          /\ \A k \in 1..Len(c.trace) : c.trace[k].provider = c.order[k]
          /\ c.status = "running" => c.idx = Len(c.trace) + 1
          /\ \A provider \in ProviderNames : Invocations(c, provider) <= 1

\* A call that preferred claude, dropped claude's text at a gate and went on
\* to openai.
C11_Witness ==
  LET c == call["r1"]
  IN  /\ c.status = "returned"
      /\ c.order = <<"claude", "openai", "gemini">>
      /\ Len(c.trace) = 2
      /\ c.trace[1].ev = "returned"
      /\ c.trace[2].ev = "returned"

\* C12: in the step in which an adapter throws inside generateContent, the
\* failure cooldown (lastCall = now, cooldown = 10 units of 1000 ms) is
\* recorded for that provider and no other provider's entry changes; the loop
\* goes on with the next candidate, and the call ends by throwing only when
\* the loop has gone through every candidate.
NewThrown(c, d) == {d.trace[k].provider : k \in {j \in NewEvents(c, d) : d.trace[j].ev = "threw"}}

C12_Step ==
  LET c == call["r1"]
      d == call'["r1"]
  IN  (d # c /\ NewThrown(c, d) # {}) =>
        /\ \A p \in NewThrown(c, d) :
             rateLimits'[p] = [lastCall |-> now, cooldown |-> FailureCooldown]
        /\ \A q \in ProviderNames \ NewThrown(c, d) : rateLimits'[q] = rateLimits[q]
        /\ \A k \in NewEvents(c, d) : d.trace[k].ev = "threw" => d.idx > k
        /\ d.status = "thrown" => d.idx > Len(d.order) /\ Len(d.trace) = Len(d.order)
        /\ d.status # "returned"

C12_AdapterThrows == [][C12_Step]_vars

\* openai has just thrown while gemini holds an entry of an earlier call:
\* openai is in its failure cooldown and claude's adapter is in flight.
C12_Witness ==
  LET c == call["r1"]
  IN  /\ c.status = "running"
      /\ c.order = <<"openai", "claude", "gemini">>
      /\ c.idx = 2
      /\ c.trace = <<Event("openai", "threw", EmptyText)>>
      /\ rateLimits["openai"] = [lastCall |-> now, cooldown |-> FailureCooldown]
      /\ rateLimits["gemini"] # NoEntry

\* C13: the step in which generateContent returns a result with provider P
\* records the success cooldown for P (lastCall = now, cooldown = 2 units of
\* 1000 ms) and for no other provider, and no other step records a success
\* cooldown; from the return on isRateLimited(P) is true until 2 units have
\* elapsed and false from then on, for as long as that call is the last one.
C13_Return ==
  LET c == call["r1"]
      d == call'["r1"]
      returns == d # c /\ d.status = "returned"
  IN  /\ returns =>
           /\ rateLimits'[d.result.provider] = [lastCall |-> now, cooldown |-> SuccessCooldown]
           /\ isRateLimitedIn(rateLimits', now', d.result.provider)
      /\ \A q \in ProviderNames :
           (rateLimits'[q] # rateLimits[q] /\ rateLimits'[q].cooldown = SuccessCooldown)
             => returns /\ d.result.provider = q

C13_AfterReturn ==
  LET c == call["r1"]
      P == c.result.provider
  IN  c.status = "returned" =>
        /\ rateLimits[P] # NoEntry
        /\ rateLimits[P].cooldown = SuccessCooldown
        /\ isRateLimited(P) <=> now - rateLimits[P].lastCall < SuccessCooldown

C13_SuccessCooldown == []C13_AfterReturn /\ [][C13_Return]_vars

\* claude's result was returned after openai failed, and claude's success
\* cooldown has run out.
C13_Witness ==
  LET c == call["r1"]
  IN  /\ c.status = "returned"
      /\ c.result.provider = "claude"
      /\ c.trace[1].ev = "threw"
      /\ now - rateLimits["claude"].lastCall >= SuccessCooldown
      /\ ~isRateLimited("claude")

\* C14: the retry budget.  When an adapter call returns, a failed quality gate
\* adds one to the call's attempt counter and, if the counter is then below
\* maxRetries, the loop goes on to the next candidate; otherwise a failed
\* consistency gate (applied only with requireConsistency set and a non-empty
\* previousContent; failed when the score is below 0.7) adds one to the same
\* counter under the same rule; otherwise the content is returned.  So a call
\* abandons at most maxRetries - 1 candidates at the gates.
Abandoned(c) ==
  Cardinality({k \in 1..Len(c.trace) : c.trace[k].ev = "returned"})
  - (IF c.status = "returned" THEN 1 ELSE 0)

C14_Gate ==
  LET c == call["r1"]
      d == call'["r1"]
      k == Len(c.trace) + 1
  IN  (c.status = "running" /\ d # c /\ d.trace[k].ev = "returned") =>
        LET content == d.trace[k].out
            o == c.opts
            qualityFails == ~validateQuality(content).passes
            score == checkConsistency(content, o.previousContent)
            consistencyFails == /\ o.requireConsistency
                                /\ Truthy(o.previousContent)
                                /\ score.d # 0
                                /\ 10 * score.n < 7 * score.d
            afterQuality == c.attempts + (IF qualityFails THEN 1 ELSE 0)
            afterBoth == afterQuality + (IF consistencyFails THEN 1 ELSE 0)
            movedOn == d.status # "returned" /\ d.idx > c.idx
        IN  IF qualityFails /\ afterQuality < o.maxRetries
            THEN movedOn /\ d.attempts = afterQuality
            ELSE IF consistencyFails /\ afterBoth < o.maxRetries
            THEN movedOn /\ d.attempts = afterBoth
            ELSE d.status = "returned" /\ d.attempts = afterBoth

C14_Budget ==
  LET c == call["r1"]
  IN  c.status # "none" =>
        /\ Abandoned(c) <= c.opts.maxRetries - 1
        /\ c.status = "running" => c.attempts = Abandoned(c)

C14_RetryBudget == []C14_Budget /\ [][C14_Gate]_vars

\* A call with maxRetries 3 that abandoned one candidate at the quality gate
\* and one at the consistency gate and returned the third candidate's text.
C14_Witness ==
  LET c == call["r1"]
  IN  /\ c.status = "returned"
      /\ c.opts.maxRetries = 3
      /\ Len(c.trace) = 3
      /\ \A k \in 1..3 : c.trace[k].ev = "returned"
      /\ ~validateQuality(c.trace[1].out).passes
      /\ validateQuality(c.trace[2].out).passes

\* A score n / d is a number when d is not 0 (0 / 0 is NaN).
IsNumber(s) == s.d # 0
IsOne(s) == s.d # 0 /\ s.n = s.d
IsZero(s) == s.d # 0 /\ s.n = 0

\* C15: checkConsistency returns a number in [0,1] for every pair of texts,
\* and 1.0 when neither text contains a word.
C15_ConsistencyDefined ==
  probe.fn = "checkConsistency" =>
    LET s == probe.consistency
    IN  /\ IsNumber(s)
        /\ 0 <= s.n /\ s.n <= s.d
        /\ (probe.newContent.words = {} /\ probe.previousContent.words = {}) => IsOne(s)

\* C16: checkConsistency of a text against itself is 1.0, against a text with
\* a disjoint vocabulary 0.0, of a text with a word against an empty text 0;
\* it is symmetric, and texts that differ in letter case only score alike.
SameButCase(a, b) ==
  /\ a.wc = b.wc
  /\ {toLowerCase(w) : w \in a.words} = {toLowerCase(w) : w \in b.words}

C16_JaccardLaws ==
  probe.fn = "checkConsistency" =>
    LET a == probe.newContent
        b == probe.previousContent
        s == probe.consistency
    IN  /\ a = b => IsOne(s)
        /\ (\A v \in a.words, w \in b.words : toLowerCase(v) # toLowerCase(w)) => IsZero(s)
        /\ (a.words # {} /\ b = EmptyText) => IsZero(s)
        /\ checkConsistency(b, a) = s
        /\ \A a2 \in ConsistencyInputs : SameButCase(a2, a) => checkConsistency(a2, b) = s

\* C17: validateQuality fails every text of fewer than 500 words whatever its
\* coherence signals and score; passes is true exactly when the score is at
\* least 0.6 and the word count at least the minimum; the score is in [0,1].
C17_ValidateQuality ==
  probe.fn = "validateQuality" =>
    LET content == probe.newContent
        q == probe.quality
    IN  /\ content.wc < 500 => ~q.passes
        /\ q.passes <=> (q.score >= 600 /\ content.wc >= minLength)
        /\ 0 <= q.score /\ q.score <= 1000

\* A text of 499 words with every coherence signal: its score is nearly 1 and
\* it fails.
C17_Witness ==
  /\ probe.fn = "validateQuality"
  /\ probe.newContent.wc = 499
  /\ calculateCoherenceScore(probe.newContent) = 10
  /\ probe.quality.score >= 600
  /\ ~probe.quality.passes

\* C18: in the book returned by generateBook, totalWords is the sum of the
\* chapters' wordCount (0 for a placeholder), successfulChapters is the number
\* of chapters without an error, and successfulChapters plus the number of
\* placeholders is the outline length.
RECURSIVE WordsUpTo(_, _)
WordsUpTo(chapters, k) ==
  IF k = 0 THEN 0 ELSE chapters[k].wordCount + WordsUpTo(chapters, k - 1)

C18_AggregateCounts ==
  \A e \in Execs :
    LET b == book[e]
    IN  b.status = "done" =>
          /\ b.totalWords = WordsUpTo(b.chapters, Len(b.chapters))
          /\ \A k \in Placeholders(b) : b.chapters[k].wordCount = 0
          /\ b.successfulChapters = Cardinality(Successful(b))
          /\ b.successfulChapters + Cardinality(Placeholders(b)) = Len(b.outline)

\* A book of three entries with two chapters and a placeholder in the middle.
C18_Witness ==
  LET b == book["r1"]
  IN  /\ b.status = "done"
      /\ Len(b.outline) = 3
      /\ b.chapters[2].error # Null
      /\ b.successfulChapters = 2
      /\ b.totalWords = b.chapters[1].wordCount + b.chapters[3].wordCount
      /\ b.totalWords > 0

\* C19: averageQuality of the book returned by generateBook (of at least one
\* outline entry) is the sum of the chapters' qualityScore divided by the
\* number of chapters, a number in [0,1], also when chapters failed.
RECURSIVE QualityUpTo(_, _)
QualityUpTo(chapters, k) ==
  IF k = 0 THEN 0 ELSE chapters[k].qualityScore + QualityUpTo(chapters, k - 1)

C19_AverageQuality ==
  \A e \in Execs :
    LET b == book[e]
        n == Len(b.chapters)
        avg == b.averageQuality
    IN  (b.status = "done" /\ n > 0) =>
          /\ IsNumber(avg)
          /\ avg.n * n = QualityUpTo(b.chapters, n) * avg.d
          /\ 0 <= avg.n /\ avg.n <= 1000 * avg.d

\* C20: the fixed pause separates the outline entries of generateBook.  The
\* step in which the attempt for an entry ends (its chapter or placeholder is
\* appended) does nothing for the next entry: the book is finished or the
\* execution pauses, until now + 1 unit of 1000 ms; and the pause is left
\* only when that time has come.
C20_Step ==
  \A e \in Execs :
    LET b == book[e]
        d == book'[e]
        before == IF d.outline = b.outline /\ b.status = "running"
                  THEN Len(b.chapters) ELSE 0
    IN  /\ (d.status # "none" /\ Len(d.chapters) > before) =>
             /\ Len(d.chapters) = before + 1
             /\ d.status = "done" \/ (pc'[e] = "sleep" /\ d.wakeAt = now + ChapterPause)
        /\ (pc[e] = "sleep" /\ pc'[e] # "sleep") => now >= b.wakeAt

C20_PauseBetweenChapters == [][C20_Step]_vars

\* C21: the rolling context of generateBook.  While a book is generated its
\* context is the one the book started with until a chapter succeeds, and
\* from then on the context rebuilt, when the last chapter succeeded, from the
\* last two entries of the chapter list as it was then (number, title and
\* tail of each); a failed entry leaves it as it is.  The generateContent call
\* of each entry is given the context of that moment, so the entry after a
\* failed one is generated against the same previousContent.
LastSuccess(b) ==
  IF Successful(b) = {} THEN 0
  ELSE CHOOSE k \in Successful(b) : \A j \in Successful(b) : j <= k

HeaderAndTail(ch) == {"chapter", Numeral[ch.number], ch.title} \cup ch.content.words

ContextAfter(b, k) ==
  IF k = 0 THEN InitialContext
  ELSE [b.previousContent EXCEPT
          !.words = UNION {HeaderAndTail(b.chapters[j]) : j \in {k - 1, k} \ {0}}]

C21_RollingContext ==
  \A e \in Execs :
    LET b == book[e]
    IN  b.status = "running" =>
          /\ b.previousContent = ContextAfter(b, LastSuccess(b))
          /\ Truthy(b.previousContent)
          /\ pc[e] = "await" => call[e].opts.previousContent = b.previousContent

\* The third entry is being generated after the first succeeded and the
\* second failed: its context is the one the second entry had.
C21_Witness ==
  LET b == book["r1"]
  IN  /\ b.status = "running"
      /\ pc["r1"] = "await"
      /\ Len(b.chapters) = 2
      /\ b.chapters[1].error = Null
      /\ b.chapters[2].error # Null
      /\ call["r1"].opts.previousContent.words = HeaderAndTail(b.chapters[1])

\* C28: the context passed as previousContent to the generateContent call of
\* an outline entry holds nothing of a placeholder chapter.
C28_ContextFromSuccessfulOnly ==
  \A e \in Execs :
    (book[e].status = "running" /\ pc[e] = "await") =>
      call[e].opts.previousContent.words \cap PlaceholderText.words = {}


\* A request whose body lacks what its route requires.
Invalid(r) ==
  \/ r.route = "generate-content" /\ ~r.req.prompt
  \/ r.route = "generate-book" /\ (~r.req.title \/ ~r.req.chapters)

C22_Answer == \A e \in Execs : Invalid(res[e]) => res[e].status = 400

\* A step that answers a request with 400 (requests are served by one
\* execution in SpecRoutes).
C22_Frame ==
  \A e \in Execs :
    requests' # requests /\ res'[e].status = 400
      => UNCHANGED <<rateLimits, pc, call, book>>

\* C22: POST /api/generate-content without a prompt and POST
\* /api/generate-book without a title or without chapters are answered 400,
\* and the step that answers 400 invokes no adapter (no call is started, no
\* trace grows, nothing is in flight) and leaves the rate-limit map as it was.
C22_ValidationSideEffectFree == []C22_Answer /\ [][C22_Frame]_vars

\* A book request without a title has been answered 400 while the map holds
\* the cooldowns of an earlier request.
C22_Witness ==
  /\ res["r1"].route = "generate-book"
  /\ res["r1"].status = 400
  /\ ~res["r1"].req.title
  /\ res["r1"].req.chapters
  /\ \E p \in Providers : rateLimits[p] # NoEntry


\* The answer of execution e tells that its POST /api/generate-content request
\* failed.
Failed(r) == r.route = "generate-content" /\ r.status = 500

\* The providers whose adapter threw during call c.
AdapterThrew(c) == Threw(c) \cap Providers

\* The entry of provider p in a snapshot.
StatusOf(snapshot, p) ==
  snapshot[CHOOSE k \in 1..Len(snapshot) : snapshot[k].name = p]

\* C23 as stated: a failed POST /api/generate-content is answered 500 with
\* success = false, the error message and a snapshot in which every provider
\* whose adapter threw during the request is unavailable with a lastUsed.
C23_FailureSnapshot_Original ==
  \A e \in Execs :
    LET r == res[e]
    IN  /\ (r.route = "generate-content" /\ r.req.prompt /\ pc[e] = "idle"
            /\ call[e].status = "thrown") => r.status = 500
        /\ Failed(r) =>
             /\ ~r.success
             /\ r.error = call[e].error
             /\ \A p \in AdapterThrew(call[e]) :
                  /\ ~StatusOf(r.providers, p).available
                  /\ StatusOf(r.providers, p).lastUsed # NoEntry.lastCall

C23_Answer ==
  \A e \in Execs :
    LET r == res[e]
    IN  /\ (r.route = "generate-content" /\ r.req.prompt /\ pc[e] = "idle"
            /\ call[e].status = "thrown") => r.status = 500
        /\ Failed(r) =>
             /\ ~r.success
             /\ r.error = call[e].error
             /\ \A p \in AdapterThrew(call[e]) :
                  StatusOf(r.providers, p).lastUsed # NoEntry.lastCall

\* The step that answers 500: the snapshot is taken at the time of the answer,
\* after the failed attempts.
C23_Snapshot ==
  \A e \in Execs :
    (pc'[e] = "idle" /\ call'[e] # call[e] /\ Failed(res'[e])) =>
      \A p \in Providers :
        LET st == StatusOf(res'[e].providers, p)
        IN  /\ st.lastUsed = rateLimits'[p].lastCall
            /\ st.available <=> ~LimitedBy(rateLimits'[p], now')
            /\ p \in AdapterThrew(call'[e]) =>
                 /\ rateLimits'[p].cooldown = FailureCooldown
                 /\ now' - st.lastUsed < FailureCooldown => ~st.available

\* C23, amended: a failed POST /api/generate-content is answered 500 with
\* success = false, the error message and a snapshot taken after the failed
\* attempts, in which every provider whose adapter threw during the request
\* has a lastUsed (the time of its throw) and is unavailable if it threw less
\* than FailureCooldown before the answer.
C23_FailureSnapshot == []C23_Answer /\ [][C23_Snapshot]_vars

\* A request answered 500 in which one adapter threw less than FailureCooldown
\* before the answer and is reported unavailable.
C23_Witness ==
  /\ Failed(res["r1"])
  /\ \E p \in AdapterThrew(call["r1"]) : ~StatusOf(res["r1"].providers, p).available


\* The adapter is invoked at most once for each candidate of a call, and a
\* call that has ended has a result or the all-providers-failed error.
C24_Call ==
  \A e \in Execs :
    LET c == call[e]
    IN  /\ \A p \in ProviderNames : Invocations(c, p) <= 1
        /\ Len(c.trace) <= Len(c.order)
        /\ c.status = "returned" => c.result # NoResult /\ c.error = Null
        /\ c.status = "thrown" =>
             c.result = NoResult /\ c.error = AllFailedMessage(c.lastError)

\* generateBook makes one generateContent call for each entry of the outline:
\* no more than n while it runs, n when it ends.
C24_Book ==
  \A e \in Execs :
    LET b == book[e]
        n == Len(b.outline)
    IN  /\ Len(b.calls) <= n
        /\ b.status = "running" /\ pc[e] = "await" => Len(b.calls) < n
        /\ b.status = "done" => Len(b.calls) = n /\ Len(b.chapters) = n
        /\ pc[e] = "idle" => b.status # "running" /\ call[e].status # "running"

\* The pause of execution e ends after the last reading of the clock that the
\* model follows.
BeyondClock(e) == pc[e] = "sleep" /\ book[e].wakeAt > MaxTime

\* C24: termination.  When every adapter call in flight eventually completes,
\* a generateContent call in progress ends (a request for content is
\* answered) after at most one adapter invocation for each candidate, with a
\* result or the all-providers-failed error, and generateBook over n entries
\* ends after exactly n generateContent calls.
C24_Termination ==
  /\ []C24_Call
  /\ []C24_Book
  /\ (pc["r1"] # "idle") ~> (pc["r1"] = "idle" \/ BeyondClock("r1"))

\* A book of MaxOutline entries has ended after adapter calls that threw,
\* returned rejected texts and returned chapters.
C24_Witness ==
  LET b == book["r1"]
  IN  /\ b.status = "done"
      /\ pc["r1"] = "idle"
      /\ Len(b.calls) = MaxOutline
      /\ \E k \in 1..Len(b.calls) : "threw" \in b.calls[k].events
      /\ \E k \in 1..Len(b.calls) : b.calls[k].status = "returned"
      /\ \E k \in 1..Len(b.calls) : b.calls[k].status = "thrown"


\* The candidates of a generateChapter / generateSnippet call are taken in the
\* order of this.providers; the call returns what the first adapter call
\* that did not throw returned, and throws exactly when there was none.
C25_Call ==
  LET c == bgCall
      n == Len(c.trace)
  IN  /\ n <= Len(bgProviders)
      /\ \A k \in 1..n : c.trace[k].provider = bgProviders[k]
      /\ c.status = "running" => c.idx = n + 1 /\ c.idx <= Len(bgProviders)
      /\ \A k \in 1..n : c.trace[k].ev = "returned" => k = n /\ c.status = "returned"
      /\ c.status = "returned" =>
           /\ n >= 1
           /\ c.trace[n].ev = "returned"
           /\ c.provider = c.trace[n].provider
           /\ c.content = c.trace[n].out
           /\ c.error = Null
      /\ c.status = "thrown" <=>
           /\ n = Len(bgProviders)
           /\ \A k \in 1..n : c.trace[k].ev \in {"skipped", "threw"}
      /\ c.status = "thrown" => c.error = bgAllFailed[c.kind] /\ c.provider = Null

\* A step of the call: a candidate is skipped exactly if it is rate-limited,
\* an adapter is invoked only for a provider that is not, a return records
\* the success cooldown for its provider and a throw the failure cooldown.
C25_Step ==
  LET c == bgCall
      d == bgCall'
      new == NewEvents(c, d)
  IN  d # c =>
        /\ \A k \in new :
             LET p == d.trace[k].provider
             IN  /\ d.trace[k].ev = "skipped" =>
                      /\ LimitedBy(bgRateLimits'[p], now)
                      /\ bgRateLimits'[p] = bgRateLimits[p]
                 /\ d.trace[k].ev = "returned" =>
                      bgRateLimits'[p] = [lastCall |-> now, cooldown |-> bgSuccessCooldown]
                 /\ d.trace[k].ev = "threw" =>
                      bgRateLimits'[p] = [lastCall |-> now, cooldown |-> bgFailureCooldown]
        /\ d.status = "running" => ~LimitedBy(bgRateLimits'[bgProviders[d.idx]], now)
        /\ \A p \in DOMAIN bgRateLimits :
             (\A k \in new : d.trace[k].provider # p) => bgRateLimits'[p] = bgRateLimits[p]

\* C25: generateChapter and generateSnippet try openai, then claude, never
\* invoke a rate-limited provider, return the output of the first provider
\* that is not rate-limited and whose call does not throw, after recording
\* the 3000 ms success cooldown for it, record the 15000 ms failure cooldown
\* for each provider whose call throws, and throw the all-providers-failed
\* error exactly when no provider was both not rate-limited and successful.
C25_BookGeneratorFailover == []C25_Call /\ [][C25_Step]_vars

\* claude's output has been returned after openai threw.
C25_Witness ==
  /\ bgCall.status = "returned"
  /\ bgCall.provider = "claude"
  /\ bgCall.trace[1].ev = "threw"
  /\ bgRateLimits["openai"].cooldown = bgFailureCooldown
  /\ bgRateLimits["claude"].cooldown = bgSuccessCooldown


\* The candidates of call c that are rate-limited at time t under the map rl.
LimitedCandidates(c, rl, t) ==
  {k \in 1..Len(c.order) : LimitedBy(rl[c.order[k]], t)}

\* A step of generateContent (the start of a call, or the completion of an
\* adapter call and the loop up to the next one).
C26_Step ==
  LET c == call["r1"]
      d == call'["r1"]
      started == requests' # requests /\ res'["r1"].status # 400
      new == NewEvents(c, d)
  IN  (d # c \/ started) =>
        /\ \A k \in new :
             d.trace[k].ev = "skipped" =>
               /\ LimitedBy(rateLimits[d.trace[k].provider], now)
               /\ rateLimits'[d.trace[k].provider] = rateLimits[d.trace[k].provider]
        /\ (started /\ LimitedCandidates(d, rateLimits, now) = 1..Len(d.order)) =>
             /\ d.status = "thrown"
             /\ pc'["r1"] = "idle"
             /\ Len(d.trace) = Len(d.order)
             /\ \A k \in 1..Len(d.trace) : d.trace[k].ev = "skipped"
             /\ rateLimits' = rateLimits

\* C26: a skip has no effect on state.  When generateContent skips a
\* candidate because it is rate-limited, the entry of that provider (lastCall
\* and cooldown) stays as it was; when every candidate is rate-limited the
\* call throws without invoking an adapter and leaves the whole map as it was.
C26_SkipHasNoEffect == [][C26_Step]_vars

\* A call whose candidates were all rate-limited has thrown.
C26_Witness ==
  LET c == call["r1"]
  IN  /\ c.status = "thrown"
      /\ Len(c.trace) = Len(failoverChain)
      /\ \A k \in 1..Len(c.trace) : c.trace[k].ev = "skipped"
      /\ \A p \in Providers : isRateLimited(p)


\* C27: the keys of the rate-limit map of the manager are configured
\* providers, whatever preferred provider the calls name (NoEntry is the
\* absence of a key).
C27_KeysAreProviders ==
  \A name \in ProviderNames : rateLimits[name] # NoEntry => name \in Providers


\* C29: in validateQuality the score threshold never decides: passes is true
\* exactly when the word count is at least minLength, every text of at least
\* minLength words scores 0.6 or more, and a text of more than maxLength words
\* has the capped score 1.0.
C29_ThresholdNeverDecides ==
  probe.fn = "validateQuality" =>
    LET content == probe.newContent
        q == probe.quality
    IN  /\ q.passes <=> content.wc >= minLength
        /\ content.wc >= minLength => q.score >= 600
        /\ content.wc > maxLength => q.score = 1000

\* A text of exactly minLength words without any coherence signal passes,
\* with a score above the threshold.
C29_Witness ==
  /\ probe.fn = "validateQuality"
  /\ probe.newContent.wc = minLength
  /\ calculateCoherenceScore(probe.newContent) = 0
  /\ probe.quality.score >= 600
  /\ probe.quality.score < 1000
  /\ probe.quality.passes


\* C30: the consistencyScore of a result is null exactly when no non-empty
\* previousContent was supplied; with a previousContent it is
\* checkConsistency(content, previousContent), also when requireConsistency
\* is false; and it is the score the gate used: a result whose score is below
\* the threshold was returned under requireConsistency only with the retry
\* budget used up.
C30_ConsistencyScore ==
  \A e \in Execs :
    LET c == call[e]
        o == c.opts
        r == c.result
    IN  c.status = "returned" =>
          /\ r.consistencyScore = NullScore <=> ~Truthy(o.previousContent)
          /\ Truthy(o.previousContent) =>
               /\ r.consistencyScore = checkConsistency(r.content, o.previousContent)
               /\ r.content = c.trace[Len(c.trace)].out
          /\ (o.requireConsistency /\ Truthy(o.previousContent)
                /\ BelowCoherence(r.consistencyScore)) => c.attempts >= o.maxRetries

\* Without requireConsistency a text that shares no word with the previous
\* content has been returned at the first attempt, with the score 0.
C30_Witness ==
  LET c == call["r1"]
  IN  /\ c.status = "returned"
      /\ ~c.opts.requireConsistency
      /\ Truthy(c.opts.previousContent)
      /\ c.attempts = 0
      /\ ~c.result.consistencyScore.isNull
      /\ IsZero(c.result.consistencyScore)


\* C31: POST /api/generate-book with a title and a chapter list is never
\* answered 500 for provider failures: once generateBook has ended the answer
\* is 200 with success = true and a book that has one chapter for each
\* requested entry, in the order of the request, whatever the adapters did.
C31_BookNeverFails ==
  \A e \in Execs :
    LET r == res[e]
        b == book[e]
    IN  (r.route = "generate-book" /\ r.req.title /\ r.req.chapters) =>
          /\ r.status # 500
          /\ r.status # 400
          /\ pc[e] = "idle" =>
               /\ r.status = 200
               /\ r.success
               /\ b.status = "done"
               /\ Len(b.chapters) = Len(b.outline)
               /\ \A k \in 1..Len(b.chapters) :
                    /\ b.chapters[k].number = k
                    /\ b.chapters[k].title = b.outline[k]

\* A book request of MaxOutline entries has been answered 200 although every
\* chapter failed, with adapter calls that threw.
C31_Witness ==
  LET r == res["r1"]
      b == book["r1"]
  IN  /\ r.route = "generate-book"
      /\ r.status = 200
      /\ Len(b.chapters) = MaxOutline
      /\ \A k \in 1..Len(b.chapters) : b.chapters[k].error # Null
      /\ \E k \in 1..Len(b.calls) : "threw" \in b.calls[k].events


\* The chapters of book b without an error, in chapter order.
bgSuccessful(b) == SelectSeq(b.chapters, LAMBDA ch : ch.error = Null)

C32_Totals ==
  LET b == bgBook
      ok == bgSuccessful(b)
  IN  b.status # "none" =>
        /\ b.totalWords = SumSeq([k \in 1..Len(b.chapters) |-> b.chapters[k].wordCount])
        /\ b.providers = [k \in 1..Len(ok) |-> ok[k].provider]
        /\ \A k \in 1..Len(b.providers) : b.providers[k] # Null
        /\ Len(b.chapters) <= Len(b.outline)
        /\ \A k \in 1..Len(b.chapters) :
             /\ b.chapters[k].number = k
             /\ b.chapters[k].error # Null => b.chapters[k].wordCount = 0
        /\ Len(b.bookContext) = 1 + Len(ok)
        /\ \A k \in 1..Len(ok) : b.bookContext[k + 1].number = ok[k].number
        /\ b.status = "done" =>
             /\ Len(b.chapters) = Len(b.outline)
             /\ b.successfulChapters = Len(ok)

\* A step of a book in progress that appends failed chapters only.
C32_FailedStep ==
  LET b == bgBook
      d == bgBook'
  IN  (/\ b.status \in {"running", "sleep"}
       /\ Len(d.chapters) > Len(b.chapters)
       /\ \A k \in (Len(b.chapters) + 1)..Len(d.chapters) : d.chapters[k].error # Null) =>
        /\ d.totalWords = b.totalWords
        /\ d.providers = b.providers
        /\ d.bookContext = b.bookContext

\* C32: BookGenerator.generateBook keeps its totals consistent at every step
\* and at return: totalWords is the sum of wordCount over the chapters so far,
\* providers has one entry for each successful chapter in chapter order, the
\* returned book has one chapter for each outline entry and successfulChapters
\* counts the chapters without an error; a failed chapter adds nothing to
\* totalWords or providers and leaves the book context as it was.
C32_RunningTotals == []C32_Totals /\ [][C32_FailedStep]_vars

\* A returned book of MaxOutline chapters with a failed chapter between two
\* successful ones.
C32_Witness ==
  LET b == bgBook
  IN  /\ b.status = "done"
      /\ Len(b.chapters) = MaxOutline
      /\ b.chapters[1].error = Null
      /\ b.chapters[2].error # Null
      /\ b.chapters[MaxOutline].error = Null
      /\ b.totalWords > 0


\* Every snapshot a response carries lists the three configured providers in
\* the order openai, claude, gemini.
C33_Order ==
  \A e \in Execs :
    LET snap == res[e].providers
    IN  (res[e].route = "ai-status" \/ res[e].status = 500) =>
          /\ Len(snap) = Cardinality(Providers)
          /\ [k \in 1..Len(snap) |-> snap[k].name] = <<"openai", "claude", "gemini">>

\* The step of a GET /api/ai-status request: the snapshot tells the map as it
\* is at the call, and the call leaves it as it is.
C33_Step ==
  (requests' # requests /\ res'["r1"].route = "ai-status") =>
    LET snap == res'["r1"].providers
    IN  /\ \A k \in 1..Len(snap) :
             LET limit == rateLimits[snap[k].name]
             IN  /\ snap[k].available <=> ~LimitedBy(limit, now)
                 /\ snap[k].lastUsed = limit.lastCall
                 /\ snap[k].lastUsed = NoEntry.lastCall <=> limit = NoEntry
                 /\ limit = NoEntry => snap[k].available
        /\ UNCHANGED <<rateLimits, pc, call, book>>

\* C33: getProviderStatus reports, for openai, claude and gemini in this
\* order, available = not isRateLimited(provider) and lastUsed = the stored
\* lastCall, with lastUsed null exactly for the providers without an entry,
\* and calling it never changes the rate-limit map.
C33_ProviderStatus == []C33_Order /\ [][C33_Step]_vars

\* A status snapshot with a provider that is cooling, one that is available
\* again after its cooldown, and one that was never used.
C33_Witness ==
  LET snap == res["r1"].providers
  IN  /\ res["r1"].route = "ai-status"
      /\ \E k \in 1..Len(snap) : ~snap[k].available
      /\ \E k \in 1..Len(snap) :
           snap[k].available /\ snap[k].lastUsed # NoEntry.lastCall
      /\ \E k \in 1..Len(snap) : snap[k].lastUsed = NoEntry.lastCall

====
